---------------------------- MODULE Spec2Model ----------------------------
(***************************************************************************)
(* A model of ytt's internal/youtube package:                              *)
(*   - getHTTPClient and getTokenFromWeb (client.go): the credential       *)
(*     lifecycle, with the one-shot callback listener and its handler      *)
(*     goroutines synchronising with the main flow on codeChan;            *)
(*   - Client.ListVideos (videos.go): cursor pagination, batched detail    *)
(*     lookups and the short-video filter, with ParseDuration and isShort. *)
(* AuthSpec runs one call of getHTTPClient, ListSpec one call of           *)
(* ListVideos.  Remote endpoints, the clock and the file system are the    *)
(* environment: their outcomes are chosen nondeterministically.            *)
(***************************************************************************)
EXTENDS Integers, Sequences, FiniteSets, TLC

\* ------------------------------------------------------------- bounds ----
\* Timestamps of stored tokens and clock readings range over 0..MaxTime.
MaxTime == 2
\* Number of redirect requests the browser side may send to the listener.
MaxRequests == 2

\* ------------------------------------------------------ credential data --
AccessTokens == {"at1", "at2"}
\* oauth2.Token, reduced to the two fields the code reads.
Token(a, e) == [access |-> a, expiry |-> e]
NoToken == Token("", 0)
\* Tokens a token file may hold when the call starts.
StoredTokens == {Token(a, e) : a \in AccessTokens, e \in 0..MaxTime}
\* Tokens the token endpoint may answer with (refresh or code exchange).
IssuedTokens == {Token(a, e) : a \in AccessTokens, e \in 0..(MaxTime + 1)}

\* The token file: absent, unreadable, undecodable, or holding a token.
File(s, t) == [state |-> s, tok |-> t]
InitialFiles ==
    {File(s, NoToken) : s \in {"absent", "unreadable", "corrupt"}}
        \cup {File("token", t) : t \in StoredTokens}

\* Inbound redirect requests and the value of their code query parameter
\* ("" when the parameter is missing).
Requests == 1..MaxRequests
Codes == {"", "ABC", "XYZ"}

VARIABLES
    \* ---- getHTTPClient ----
    pc,          \* position of the main flow in getHTTPClient
    site,        \* which branch the flow is in: "load", "refresh", "changed"
    tokenFile,   \* content of the file at tokenPath
    tok,         \* local tok
    newTok,      \* local newTok (line 84)
    now,         \* value time.Now() returned at line 81 (-1: not read)
    result,      \* "none", "client" or "error"
    err,         \* which error was returned
    clientTok,   \* token bound to the returned client
    \* ---- getTokenFromWeb ----
    webPc,       \* position of the main flow in getTokenFromWeb
    server,      \* "off", "listening", "failed", "closed"
    handler,     \* per request: "idle", "send" (at codeChan <- ...), "done"
    reqCode,     \* per request: its code parameter
    authCode,    \* local authCode (line 137)
    webTok,      \* token returned by config.Exchange
    webErr,      \* error returned by getTokenFromWeb ("" if none)
    \* ---- observation (history) ----
    file0,       \* token file when the call started
    loadedTok,   \* token tokenFromFile returned (NoToken if it failed)
    refreshCalls,\* number of tokenSource.Token() calls
    flowCalls,   \* number of getTokenFromWeb calls
    saveCalls,   \* tokens passed to saveToken, in order
    exchanges,   \* codes passed to config.Exchange, in order
    arrivals,    \* requests in the order the listener accepted them
    received,    \* requests whose send on codeChan completed, in order
    shutdowns    \* number of server.Shutdown calls

authVars == <<pc, site, tokenFile, tok, newTok, now, result, err, clientTok,
              webPc, server, handler, reqCode, authCode, webTok, webErr,
              file0, loadedTok, refreshCalls, flowCalls, saveCalls,
              exchanges, arrivals, received, shutdowns>>

mainVars == <<pc, site, tokenFile, tok, newTok, now, result, err, clientTok>>
webVars  == <<webPc, server, handler, reqCode, authCode, webTok, webErr>>
histVars == <<file0, loadedTok, refreshCalls, flowCalls, saveCalls,
              exchanges, arrivals, received, shutdowns>>

\* --------------------------------------------------------- catalog data --
\* Pages the uploads listing may have, and items it may list in all.
MaxPages == 2
MaxItems == 3

VideoIDs == {"v1", "v2", "v3"}
ChannelIDs == {"", "UC1"}
\* Values of minDurationSeconds.
Thresholds == {60}

\* A Go string is modelled as the sequence of its characters.
Digits == <<"0", "1", "2", "3", "4", "5", "6", "7", "8", "9">>
PT59S == <<"P", "T", "5", "9", "S">>
PT1M == <<"P", "T", "1", "M">>
\* contentDetails.duration values the detail endpoint may report.
Durations == {PT59S, PT1M}

VARIABLES
    \* ---- ListVideos ----
    lpc,           \* position in ListVideos
    channelID,     \* parameter channelID (reassigned at line 38)
    minDurationSeconds,
    nextPageToken, \* local nextPageToken: 0 is "", k > 0 the cursor of page k
    pageNext,      \* playlistResponse.NextPageToken of the page in hand
    videoIDs,      \* local videoIDs
    videos,        \* local videos
    lresult,       \* "none", "ok" or "error"
    lerr,          \* which error was returned
    returned,      \* the slice returned to the caller
    \* ---- observation (history) ----
    calls,         \* remote calls issued, in order
    listing,       \* pages the listing endpoint answered with, in order
    details,       \* answers of the detail endpoint, in order
    cursors,       \* NextPageToken of each page answered, in order
    channelArg     \* channelID as the caller passed it

listVars == <<lpc, channelID, minDurationSeconds, nextPageToken, pageNext,
              videoIDs, videos, lresult, lerr, returned, calls, listing,
              details, cursors, channelArg>>

\* ------------------------------------------------------ text functions --
\* Groups an input of ParseDuration may have after its first two characters,
\* and characters a file name may have before and after its run of letters.
MaxGroups == 3
\* Width of int in the model, and digits a long digit run may have.
IntBits == 24
MaxDigits == 8
MaxHead == 2
MaxTail == 2

\* Line 85: the byte length a sanitized name is cut to.
MaxFilenameLen == 100

VARIABLES
    \* ---- ParseDuration ----
    ppc,           \* "off", "call" or "done"
    durationIn,    \* the argument of ParseDuration
    parsed,        \* the int returned
    \* ---- SanitizeFilename ----
    spc,           \* "off", "call", "once" or "twice"
    filenameIn,    \* the argument of SanitizeFilename
    sanitized,     \* SanitizeFilename(filenameIn)
    resanitized    \* SanitizeFilename(sanitized)

textVars == <<ppc, durationIn, parsed, spc, filenameIn, sanitized, resanitized>>

vars == <<authVars, listVars, textVars>>

\* ------------------------------------------------------------ Init -------
\* The state of the credential side with the main flow at p.
AuthStart(p, files) ==
    /\ pc = p
    /\ site = "none"
    /\ tokenFile \in files
    /\ tok = NoToken
    /\ newTok = NoToken
    /\ now = -1
    /\ result = "none"
    /\ err = ""
    /\ clientTok = NoToken
    /\ webPc = "off"
    /\ server = "off"
    /\ handler = [r \in Requests |-> "idle"]
    /\ reqCode = [r \in Requests |-> ""]
    /\ authCode = ""
    /\ webTok = NoToken
    /\ webErr = ""
    /\ file0 = tokenFile
    /\ loadedTok = NoToken
    /\ refreshCalls = 0
    /\ flowCalls = 0
    /\ saveCalls = <<>>
    /\ exchanges = <<>>
    /\ arrivals = <<>>
    /\ received = <<>>
    /\ shutdowns = 0

\* ListVideos not running.
ListIdle ==
    /\ lpc = "off"
    /\ channelID = ""
    /\ minDurationSeconds = 0
    /\ nextPageToken = 0
    /\ pageNext = 0
    /\ videoIDs = <<>>
    /\ videos = <<>>
    /\ lresult = "none"
    /\ lerr = ""
    /\ returned = <<>>
    /\ calls = <<>>
    /\ listing = <<>>
    /\ details = <<>>
    /\ cursors = <<>>
    /\ channelArg = channelID

\* No call of ParseDuration under way.
ParseIdle ==
    /\ ppc = "off"
    /\ durationIn = <<>>
    /\ parsed = 0

\* No call of SanitizeFilename under way.
SanitizeIdle ==
    /\ spc = "off"
    /\ filenameIn = <<>>
    /\ sanitized = <<>>
    /\ resanitized = <<>>

\* One call of getHTTPClient(config, tokenPath), for every token file.
AuthInit ==
    /\ AuthStart("tokenFromFile", InitialFiles)
    /\ ListIdle
    /\ ParseIdle
    /\ SanitizeIdle

\* --------------------------------------------------- getHTTPClient -------
\* time.Time.Before
Before(t, u) == t < u

\* Line 81: tok.Expiry.Before(time.Now())
Expired(t, clock) == Before(t.expiry, clock)

\* Line 95: newTok.AccessToken != tok.AccessToken
TokenChanged(n, t) == n # t
AccessTokenChanged(n, t) == n.access # t.access

\* Lines 72-73 with tokenFromFile (lines 154-163): err == nil exactly when
\* the file opens and its content decodes.
LoadSucceedsUndecoded(f) == f.state \in {"token", "corrupt"}
LoadSucceeds(f) == f.state = "token"

\* Lines 74, 88: tok, err = getTokenFromWeb(config) replaces the local tok
\* (old) by the token of the flow (fresh).
TokenAfterWebStale(old, fresh) == old
TokenAfterWeb(old, fresh) == fresh

\* Entry into getTokenFromWeb from one of its two call sites (lines 74, 88).
CallWeb(s) ==
    /\ pc' = "web"
    /\ site' = s
    /\ webPc' = "start"
    /\ flowCalls' = flowCalls + 1

\* Lines 72-73: tokenFromFile and the test of its error.
LoadToken ==
    /\ UNCHANGED <<listVars, textVars>>
    /\ pc = "tokenFromFile"
    /\ IF LoadSucceeds(tokenFile)
         THEN /\ tok' = tokenFile.tok
              /\ loadedTok' = tokenFile.tok
              /\ pc' = "expiry"
              /\ UNCHANGED <<site, webPc, flowCalls>>
         ELSE /\ CallWeb("load")
              /\ UNCHANGED <<tok, loadedTok>>
    /\ UNCHANGED <<tokenFile, newTok, now, result, err, clientTok>>
    /\ UNCHANGED <<server, handler, reqCode, authCode, webTok, webErr>>
    /\ UNCHANGED <<file0, refreshCalls, saveCalls, exchanges, arrivals,
                   received, shutdowns>>

\* Line 81: read the clock and compare the expiry against it.
CheckExpiry ==
    /\ UNCHANGED <<listVars, textVars>>
    /\ pc = "expiry"
    /\ \E clock \in 0..MaxTime :
          /\ now' = clock
          /\ pc' = IF Expired(tok, clock) THEN "refresh" ELSE "return"
    /\ UNCHANGED <<site, tokenFile, tok, newTok, result, err, clientTok>>
    /\ UNCHANGED webVars
    /\ UNCHANGED histVars

\* Lines 82-85 and 95-96: tokenSource.Token() and the test of its outcome.
\* The token source answers with an error or with some token.
Refresh ==
    /\ UNCHANGED <<listVars, textVars>>
    /\ pc = "refresh"
    /\ refreshCalls' = refreshCalls + 1
    /\ \/ /\ CallWeb("refresh")
          /\ UNCHANGED <<tok, newTok>>
       \/ \E n \in IssuedTokens :
             /\ newTok' = n
             /\ IF AccessTokenChanged(n, tok)
                  THEN /\ tok' = n
                       /\ pc' = "saveToken"
                       /\ site' = "changed"
                  ELSE /\ pc' = "return"
                       /\ UNCHANGED <<tok, site>>
             /\ UNCHANGED <<webPc, flowCalls>>
    /\ UNCHANGED <<tokenFile, now, result, err, clientTok>>
    /\ UNCHANGED <<server, handler, reqCode, authCode, webTok, webErr>>
    /\ UNCHANGED <<file0, loadedTok, saveCalls, exchanges, arrivals,
                   received, shutdowns>>

\* Lines 65, 75, 89: err != nil after getTokenFromWeb.
FlowFailedNoCodeOnly(e) == e = "authorization failed"
FlowFailed(e) == e # ""

\* Lines 75-77 and 89-91: getTokenFromWeb has returned to getHTTPClient.
WebReturn ==
    /\ UNCHANGED <<listVars, textVars>>
    /\ pc = "web"
    /\ webPc = "ret"
    /\ webPc' = "off"
    /\ IF FlowFailed(webErr)
         THEN /\ result' = "error"
              /\ err' = webErr
              /\ pc' = "done"
              /\ UNCHANGED tok
         ELSE /\ tok' = TokenAfterWeb(tok, webTok)
              /\ pc' = "saveToken"
              /\ UNCHANGED <<result, err>>
    /\ UNCHANGED <<site, tokenFile, newTok, now, clientTok>>
    /\ UNCHANGED <<server, handler, reqCode, authCode, webTok, webErr>>
    /\ UNCHANGED histVars

\* saveToken (lines 165-178) and the test of its error at lines 78, 92, 97.
\* MkdirAll or OpenFile may fail (file untouched); Encode may fail after
\* O_TRUNC emptied the file (file left undecodable).
SaveToken ==
    /\ UNCHANGED <<listVars, textVars>>
    /\ pc = "saveToken"
    /\ saveCalls' = Append(saveCalls, tok)
    /\ \/ /\ tokenFile' = File("token", tok)
          /\ pc' = "return"
          /\ UNCHANGED <<result, err>>
       \/ /\ tokenFile' \in {tokenFile, File("corrupt", NoToken)}
          /\ result' = "error"
          /\ err' = "save"
          /\ pc' = "done"
    /\ UNCHANGED <<site, tok, newTok, now, clientTok>>
    /\ UNCHANGED webVars
    /\ UNCHANGED <<file0, loadedTok, refreshCalls, flowCalls, exchanges,
                   arrivals, received, shutdowns>>

\* Line 102: config.Client(ctx, tok)
ReturnClient ==
    /\ UNCHANGED <<listVars, textVars>>
    /\ pc = "return"
    /\ result' = "client"
    /\ clientTok' = tok
    /\ pc' = "done"
    /\ UNCHANGED <<site, tokenFile, tok, newTok, now, err>>
    /\ UNCHANGED webVars
    /\ UNCHANGED histVars

\* -------------------------------------------------- getTokenFromWeb ------
\* Line 137: the main flow waits at its receive once the listener goroutine
\* is started.
AfterStartNoWait == "shutdown"
AfterStart == "recv"

\* Lines 106-135: make codeChan, install the handler, start the listener
\* goroutine, print the consent URL; the main flow then waits at line 137.
\* ListenAndServe may fail to bind the port, which is only logged.
WebStart ==
    /\ UNCHANGED <<listVars, textVars>>
    /\ webPc = "start"
    /\ webPc' = AfterStart
    /\ server' \in {"listening", "failed"}
    /\ handler' = [r \in Requests |-> "idle"]
    /\ reqCode' = [r \in Requests |-> ""]
    /\ authCode' = ""
    /\ webTok' = NoToken
    /\ webErr' = ""
    /\ UNCHANGED mainVars
    /\ UNCHANGED histVars

\* A request reaches the listener: net/http runs the handler in a goroutine
\* of its own (lines 110-113, 116); it writes the page and is then at its
\* send on codeChan.
Arrive(r, c) ==
    /\ UNCHANGED <<listVars, textVars>>
    /\ server = "listening"
    /\ handler[r] = "idle"
    /\ handler' = [handler EXCEPT ![r] = "send"]
    /\ reqCode' = [reqCode EXCEPT ![r] = c]
    /\ arrivals' = Append(arrivals, r)
    /\ UNCHANGED mainVars
    /\ UNCHANGED <<webPc, server, authCode, webTok, webErr>>
    /\ UNCHANGED <<file0, loadedTok, refreshCalls, flowCalls, saveCalls,
                   exchanges, received, shutdowns>>

\* Lines 111-117 with line 137: the value the main flow receives is the one
\* the handler of request r read from its own request and sent.
DeliveredLatest(r) == reqCode[arrivals[Len(arrivals)]]
Delivered(r) == reqCode[r]

\* Lines 137-141: what follows the receive is server.Shutdown.
AfterReceiveExchange == "check"
AfterReceive == "shutdown"

\* Lines 114/117 with line 137: codeChan is unbuffered, so a handler's send
\* and the main flow's receive complete together.  Which of several
\* handlers at their send is served is up to the scheduler.
Handoff(r) ==
    /\ UNCHANGED <<listVars, textVars>>
    /\ webPc = "recv"
    /\ handler[r] = "send"
    /\ authCode' = Delivered(r)
    /\ handler' = [handler EXCEPT ![r] = "done"]
    /\ received' = Append(received, r)
    /\ webPc' = AfterReceive
    /\ UNCHANGED mainVars
    /\ UNCHANGED <<server, reqCode, webTok, webErr>>
    /\ UNCHANGED <<file0, loadedTok, refreshCalls, flowCalls, saveCalls,
                   exchanges, arrivals, shutdowns>>

\* Lines 139-141: server.Shutdown closes the listener and waits at most 5 s
\* for connections to go idle.  It does not stop handler goroutines: one
\* still at its send stays there.
Shutdown ==
    /\ UNCHANGED <<listVars, textVars>>
    /\ webPc = "shutdown"
    /\ server' = IF server = "listening" THEN "closed" ELSE server
    /\ shutdowns' = shutdowns + 1
    /\ webPc' = "check"
    /\ UNCHANGED mainVars
    /\ UNCHANGED <<handler, reqCode, authCode, webTok, webErr>>
    /\ UNCHANGED <<file0, loadedTok, refreshCalls, flowCalls, saveCalls,
                   exchanges, arrivals, received>>

\* Line 143: authCode == "", negated.
HasCodeAlways(c) == TRUE
HasCode(c) == c # ""

\* Lines 143-145: no code was handed over.
NoCode ==
    /\ UNCHANGED <<listVars, textVars>>
    /\ webPc = "check"
    /\ ~HasCode(authCode)
    /\ webErr' = "authorization failed"
    /\ webPc' = "ret"
    /\ UNCHANGED mainVars
    /\ UNCHANGED <<server, handler, reqCode, authCode, webTok>>
    /\ UNCHANGED histVars

\* Lines 147-151: config.Exchange, which answers with a token or an error.
Exchange ==
    /\ UNCHANGED <<listVars, textVars>>
    /\ webPc = "check"
    /\ HasCode(authCode)
    /\ exchanges' = Append(exchanges, authCode)
    /\ \/ \E t \in IssuedTokens :
             /\ webTok' = t
             /\ UNCHANGED webErr
       \/ /\ webErr' = "unable to retrieve token from web"
          /\ UNCHANGED webTok
    /\ webPc' = "ret"
    /\ UNCHANGED mainVars
    /\ UNCHANGED <<server, handler, reqCode, authCode>>
    /\ UNCHANGED <<file0, loadedTok, refreshCalls, flowCalls, saveCalls,
                   arrivals, received, shutdowns>>

AuthNext ==
    \/ LoadToken
    \/ CheckExpiry
    \/ Refresh
    \/ WebReturn
    \/ SaveToken
    \/ ReturnClient
    \/ WebStart
    \/ \E r \in Requests, c \in Codes : Arrive(r, c)
    \/ \E r \in Requests : Handoff(r)
    \/ Shutdown
    \/ NoCode
    \/ Exchange

AuthSpec == AuthInit /\ [][AuthNext]_vars

\* ------------------------------------------------------ Authenticate -----
\* Lines 53-64: read and parse the client secret file, then call
\* getTokenFromWeb.
ReadSecret ==
    /\ UNCHANGED <<listVars, textVars>>
    /\ pc = "readSecret"
    /\ site' = "authenticate"
    /\ \/ /\ \E e \in {"unable to read client secret file",
                        "unable to parse client secret file"} : err' = e
          /\ result' = "error"
          /\ pc' = "done"
          /\ UNCHANGED <<webPc, flowCalls>>
       \/ /\ pc' = "authWeb"
          /\ webPc' = "start"
          /\ flowCalls' = flowCalls + 1
          /\ UNCHANGED <<result, err>>
    /\ UNCHANGED <<tokenFile, tok, newTok, now, clientTok>>
    /\ UNCHANGED <<server, handler, reqCode, authCode, webTok, webErr>>
    /\ UNCHANGED <<file0, loadedTok, refreshCalls, saveCalls, exchanges,
                   arrivals, received, shutdowns>>

\* Lines 64-67: getTokenFromWeb has returned to Authenticate.
AuthenticateWebReturn ==
    /\ UNCHANGED <<listVars, textVars>>
    /\ pc = "authWeb"
    /\ webPc = "ret"
    /\ webPc' = "off"
    /\ IF FlowFailed(webErr)
         THEN /\ result' = "error"
              /\ err' = webErr
              /\ pc' = "done"
              /\ UNCHANGED tok
         ELSE /\ tok' = webTok
              /\ pc' = "authSave"
              /\ UNCHANGED <<result, err>>
    /\ UNCHANGED <<site, tokenFile, newTok, now, clientTok>>
    /\ UNCHANGED <<server, handler, reqCode, authCode, webTok, webErr>>
    /\ UNCHANGED histVars

\* Line 69: return saveToken(tokenPath, tok); saveToken (lines 165-178)
\* fails as in SaveToken.  Authenticate returns no client.
AuthenticateSave ==
    /\ UNCHANGED <<listVars, textVars>>
    /\ pc = "authSave"
    /\ saveCalls' = Append(saveCalls, tok)
    /\ \/ /\ tokenFile' = File("token", tok)
          /\ result' = "ok"
          /\ UNCHANGED err
       \/ /\ tokenFile' \in {tokenFile, File("corrupt", NoToken)}
          /\ result' = "error"
          /\ err' = "save"
    /\ pc' = "done"
    /\ UNCHANGED <<site, tok, newTok, now, clientTok>>
    /\ UNCHANGED webVars
    /\ UNCHANGED <<file0, loadedTok, refreshCalls, flowCalls, exchanges,
                   arrivals, received, shutdowns>>

\* One call of Authenticate(oauthPath, tokenPath), for every token file.
AuthenticateInit ==
    /\ AuthStart("readSecret", InitialFiles)
    /\ ListIdle
    /\ ParseIdle
    /\ SanitizeIdle

\* One call of getHTTPClient or of Authenticate.
CredentialInit == AuthInit \/ AuthenticateInit

CredentialNext ==
    \/ AuthNext
    \/ ReadSecret
    \/ AuthenticateWebReturn
    \/ AuthenticateSave

CredentialSpec == CredentialInit /\ [][CredentialNext]_vars

\* ------------------------------------------------------ ParseDuration ----
IsDigit(c) == \E i \in 1..Len(Digits) : Digits[i] = c
\* int(d[j]-'0')
DigitValue(c) == (CHOOSE i \in 1..Len(Digits) : Digits[i] = c) - 1

\* strings.HasPrefix
HasPrefix(s, p) == Len(s) >= Len(p) /\ SubSeq(s, 1, Len(p)) = p

\* Lines 193-196: the number i of leading digit characters of d.
RECURSIVE DigitRun(_)
DigitRun(d) ==
    IF Len(d) > 0 /\ IsDigit(Head(d)) THEN 1 + DigitRun(Tail(d)) ELSE 0

\* Go's int is a two's complement integer of 32 or 64 bits whose arithmetic
\* wraps around.  IntBits is that width, scaled down so that every
\* intermediate value can be computed.
IntModulus == 2 ^ IntBits
\* The int that x wraps to.
WrapInt(x) ==
    LET m == x % IntModulus
    IN IF m >= IntModulus \div 2 THEN m - IntModulus ELSE m
\* a*60 and a*3600 in int arithmetic.
Times60(a) == WrapInt(a * 60)
Times3600(a) == Times60(Times60(a))

\* Lines 200-203: the decimal value of d[0:i], in int arithmetic.
RECURSIVE Magnitude(_, _)
MagnitudeNoShift(d, i) == IF i = 0 THEN 0 ELSE DigitValue(d[i])
Magnitude(d, i) ==
    IF i = 0 THEN 0
    ELSE WrapInt(Magnitude(d, i - 1) * 10 + DigitValue(d[i]))

\* Lines 192-213: the loop over the groups of d; acc holds hours, minutes
\* and seconds.  A unit letter other than H, M, S assigns nothing.
RECURSIVE ParseGroups(_, _)
ParseGroups(d, acc) ==
    IF Len(d) = 0 THEN acc
    ELSE LET i == DigitRun(d) IN
         IF i = 0 \/ i >= Len(d) THEN acc
         ELSE LET val == Magnitude(d, i)
                  unit == d[i + 1]
                  next == CASE unit = "H" -> [acc EXCEPT !.hours = val]
                            [] unit = "M" -> [acc EXCEPT !.minutes = val]
                            [] unit = "S" -> [acc EXCEPT !.seconds = val]
                            [] OTHER -> acc
              IN ParseGroups(SubSeq(d, i + 2, Len(d)), next)

\* Lines 185-216.
ParseDuration(duration) ==
    IF ~HasPrefix(duration, <<"P", "T">>) THEN 0
    ELSE LET t == ParseGroups(SubSeq(duration, 3, Len(duration)),
                              [hours |-> 0, minutes |-> 0, seconds |-> 0])
         IN WrapInt(WrapInt(Times3600(t.hours) + Times60(t.minutes))
                        + t.seconds)

\* Lines 180-182.
isShortInclusive(duration, min) == ParseDuration(duration) <= min
isShort(duration, min) == ParseDuration(duration) < min

\* --------------------------------------------------------- ListVideos ----
SeqsUpTo(S, n) == UNION {[1..k -> S] : k \in 0..n}
Range(s) == {s[i] : i \in 1..Len(s)}
RECURSIVE Flatten(_)
Flatten(ss) == IF ss = <<>> THEN <<>> ELSE Head(ss) \o Flatten(Tail(ss))

\* A remote call, as logged: kind is "mine", "channel", "page" or "details".
Call(k, c, ids) == [kind |-> k, cursor |-> c, ids |-> ids]

\* Answers the detail endpoint may give to a request for ids: records of
\* some of the requested videos, each once, in any order.
DetailResponses(ids) ==
    LET orders == {o \in SeqsUpTo(Range(ids), Cardinality(Range(ids))) :
                     \A i, j \in 1..Len(o) : i # j => o[i] # o[j]}
    IN UNION {{[i \in 1..Len(o) |-> [id |-> o[i], duration |-> d[i]]] :
                 d \in [1..Len(o) -> Durations]} : o \in orders}

\* Lines 102-107: the summary built from a detail record.
VideoInfo(video) == [videoID |-> video.id]

\* Lines 93-108: the records of one answer that pass the filter, as
\* summaries, in the order of the answer.
RECURSIVE Kept(_, _)
Kept(items, min) ==
    IF items = <<>> THEN <<>>
    ELSE IF isShort(Head(items).duration, min) THEN Kept(Tail(items), min)
    ELSE <<VideoInfo(Head(items))>> \o Kept(Tail(items), min)

\* Lines 93-108: videos after the loop over one answer.
AccumulateReset(vs, items, min) == Kept(items, min)
AccumulatePrepend(vs, items, min) == Kept(items, min) \o vs
Accumulate(vs, items, min) == vs \o Kept(items, min)

\* Lines 68, 87: what return nil, err hands back while vs is accumulated.
FailureResultPartial(vs) == vs
FailureResult(vs) == <<>>

\* Lines 40, 49, 68, 87: return nil, err.
ListFail(e) ==
    /\ lresult' = "error"
    /\ lerr' = e
    /\ returned' = FailureResult(videos)
    /\ lpc' = "done"

\* Lines 111-120: advance the cursor; leave the loop and return videos (vs)
\* when it is empty.
AdvanceKeepsCursor(next, vs) ==
    /\ UNCHANGED nextPageToken
    /\ IF next = 0
         THEN /\ lpc' = "done"
              /\ lresult' = "ok"
              /\ returned' = vs
         ELSE /\ lpc' = "page"
              /\ UNCHANGED <<lresult, returned>>
    /\ UNCHANGED lerr
Advance(next, vs) ==
    /\ nextPageToken' = next
    /\ IF next = 0
         THEN /\ lpc' = "done"
              /\ lresult' = "ok"
              /\ returned' = vs
         ELSE /\ lpc' = "page"
              /\ UNCHANGED <<lresult, returned>>
    /\ UNCHANGED lerr

\* Line 36: channelID == ""
NoChannelGivenAlways(id) == TRUE
NoChannelGiven(id) == id = ""

\* Lines 36-42: getAuthenticatedChannelID (lines 151-166) when no channel
\* was given.
ResolveChannel ==
    /\ lpc = "channel"
    /\ IF NoChannelGiven(channelID)
         THEN /\ calls' = Append(calls, Call("mine", 0, <<>>))
              /\ \/ /\ ListFail("error retrieving user's channel")
                    /\ UNCHANGED channelID
                 \/ /\ ListFail("no channel found for authenticated user")
                    /\ UNCHANGED channelID
                 \/ /\ channelID' = "UCmine"
                    /\ lpc' = "uploads"
                    /\ UNCHANGED <<lresult, lerr, returned>>
         ELSE /\ lpc' = "uploads"
              /\ UNCHANGED <<channelID, calls, lresult, lerr, returned>>
    /\ UNCHANGED <<minDurationSeconds, nextPageToken, pageNext, videoIDs,
                   videos, listing, details, cursors, channelArg>>
    /\ UNCHANGED <<authVars, textVars>>

\* Lines 47-56: getUploadsPlaylistID (lines 168-178), then the locals.
ResolveUploads ==
    /\ lpc = "uploads"
    /\ calls' = Append(calls, Call("channel", 0, <<>>))
    /\ \/ /\ ListFail("error retrieving channel details")
          /\ UNCHANGED <<videos, nextPageToken>>
       \/ /\ ListFail("channel not found")
          /\ UNCHANGED <<videos, nextPageToken>>
       \/ /\ videos' = <<>>
          /\ nextPageToken' = 0
          /\ lpc' = "page"
          /\ UNCHANGED <<lresult, lerr, returned>>
    /\ UNCHANGED <<channelID, minDurationSeconds, pageNext, videoIDs,
                   listing, details, cursors, channelArg>>
    /\ UNCHANGED <<authVars, textVars>>

\* Line 79: len(videoIDs) > 0
HasIDsAlways(ids) == TRUE
HasIDs(ids) == Len(ids) > 0

\* Lines 58-79 and, for a page without identifiers, 111-120: one request of
\* PlaylistItems.List with the current cursor.  The endpoint fails, or
\* answers with a page of identifiers and a continuation cursor (0: none).
FetchPage ==
    /\ lpc = "page"
    /\ calls' = Append(calls, Call("page", nextPageToken, <<>>))
    /\ \/ /\ ListFail("error retrieving playlist items")
          /\ UNCHANGED <<nextPageToken, pageNext, videoIDs, listing,
                         cursors>>
       \/ \E items \in SeqsUpTo(VideoIDs, MaxItems - Len(Flatten(listing))),
             next \in {0} \cup {k \in {Len(listing) + 2} : k <= MaxPages} :
             /\ listing' = Append(listing, items)
             /\ videoIDs' = items
             /\ pageNext' = next
             /\ cursors' = Append(cursors, next)
             /\ IF HasIDs(items)
                  THEN /\ lpc' = "details"
                       /\ UNCHANGED <<nextPageToken, lresult, lerr, returned>>
                  ELSE Advance(next, videos)
    /\ UNCHANGED <<channelID, minDurationSeconds, videos, details,
                   channelArg>>
    /\ UNCHANGED <<authVars, textVars>>

\* Lines 79-120: one request of Videos.List for the identifiers of the page,
\* the filter over its answer, and the advance of the cursor.
FetchDetails ==
    /\ lpc = "details"
    /\ calls' = Append(calls, Call("details", 0, videoIDs))
    /\ \/ /\ ListFail("error retrieving video statistics")
          /\ UNCHANGED <<nextPageToken, videos, details>>
       \/ \E items \in DetailResponses(videoIDs) :
             /\ details' = Append(details, items)
             /\ videos' = Accumulate(videos, items, minDurationSeconds)
             /\ Advance(pageNext, videos')
    /\ UNCHANGED <<channelID, minDurationSeconds, pageNext, videoIDs,
                   listing, cursors, channelArg>>
    /\ UNCHANGED <<authVars, textVars>>

\* One call of ListVideos(channelID, minDurationSeconds).
ListInit ==
    /\ AuthStart("off", {File("absent", NoToken)})
    /\ lpc = "channel"
    /\ channelID \in ChannelIDs
    /\ minDurationSeconds \in Thresholds
    /\ nextPageToken = 0
    /\ pageNext = 0
    /\ videoIDs = <<>>
    /\ videos = <<>>
    /\ lresult = "none"
    /\ lerr = ""
    /\ returned = <<>>
    /\ calls = <<>>
    /\ listing = <<>>
    /\ details = <<>>
    /\ cursors = <<>>
    /\ channelArg = channelID
    /\ ParseIdle
    /\ SanitizeIdle

ListNext ==
    \/ ResolveChannel
    \/ ResolveUploads
    \/ FetchPage
    \/ FetchDetails

ListSpec == ListInit /\ [][ListNext]_vars

\* ------------------------------------------------ ParseDuration calls ----
\* Digit runs and unit characters of the generated inputs; "D" stands for
\* the letters ParseDuration gives no meaning to.  A group is a digit run,
\* possibly empty, and a letter; the magnitudes stay far below the width
\* of int.
DigitRuns == {<<>>, <<"2">>, <<"3", "0">>}
UnitChars == {<<"H">>, <<"M">>, <<"S">>, <<"D">>}
Groups == {r \o u : r \in DigitRuns, u \in UnitChars}
Markers == {<<"P", "T">>, <<>>}

\* The strings made of at most n groups.
RECURSIVE Bodies(_)
Bodies(n) ==
    IF n = 0 THEN {<<>>}
    ELSE LET shorter == Bodies(n - 1)
         IN shorter \cup {b \o g : b \in shorter, g \in Groups}

\* videos_test.go lines 11-20: inputs and wanted values of TestParseDuration.
TestParseDuration ==
    {<<<<"P", "T", "3", "0", "S">>, 30>>,
     <<<<"P", "T", "5", "M">>, 300>>,
     <<<<"P", "T", "2", "H">>, 7200>>,
     <<<<"P", "T", "1", "0", "M", "3", "0", "S">>, 630>>,
     <<<<"P", "T", "1", "H", "3", "0", "M">>, 5400>>,
     <<<<"P", "T", "1", "H", "3", "0", "M", "4", "5", "S">>, 5445>>,
     <<<<"P", "T", "0", "S">>, 0>>,
     <<<<>>, 0>>,
     <<<<"1", "H", "3", "0", "M">>, 0>>,
     <<<<"P", "1", "D">>, 0>>}

\* Digit runs up to MaxDigits long, whose value may exceed the width of int.
LongRuns == UNION {[1..k -> {"1", "9"}] : k \in 1..MaxDigits}
\* A marker or none, groups, and a digit run or none at the end; and the
\* marker followed by one group with a long digit run.
ParseInputs ==
    {m \o b \o r : m \in Markers, b \in Bodies(MaxGroups), r \in DigitRuns}
        \cup {<<"P", "T">> \o r \o u : r \in LongRuns, u \in UnitChars}
        \cup {t[1] : t \in TestParseDuration}

\* One call of ParseDuration(durationIn).
Parse ==
    /\ ppc = "call"
    /\ ppc' = "done"
    /\ parsed' = ParseDuration(durationIn)
    /\ UNCHANGED <<durationIn, spc, filenameIn, sanitized, resanitized>>
    /\ UNCHANGED <<authVars, listVars>>

ParseInit ==
    /\ AuthStart("off", {File("absent", NoToken)})
    /\ ListIdle
    /\ SanitizeIdle
    /\ ppc = "call"
    /\ durationIn \in ParseInputs
    /\ parsed = 0

ParseNext == Parse

ParseSpec == ParseInit /\ [][ParseNext]_vars

\* --------------------------------------------------- SanitizeFilename ----
\* Line 82: the characters the pattern [<>:"/\\|?*] matches.
Reserved == {"<", ">", ":", "\"", "/", "\\", "|", "?", "*"}
\* Line 89: the cutset of strings.Trim.
Cutset == {" ", "."}

\* Line 83: reg.ReplaceAllString(filename, "_").
ReplaceReserved(s) ==
    [i \in 1..Len(s) |-> IF s[i] \in Reserved THEN "_" ELSE s[i]]

\* Lines 85-87: sanitized[:100] when longer than 100 bytes.
Truncate(s) ==
    IF Len(s) > MaxFilenameLen THEN SubSeq(s, 1, MaxFilenameLen) ELSE s

\* strings.Trim(s, cutset): s without its leading and trailing characters
\* that are in cutset.
Trim(s, cutset) ==
    LET keep == {i \in 1..Len(s) : s[i] \notin cutset}
    IN IF keep = {} THEN <<>>
       ELSE SubSeq(s, CHOOSE i \in keep : \A j \in keep : i <= j,
                      CHOOSE i \in keep : \A j \in keep : i >= j)

\* Lines 81-92.
SanitizeFilenameTrimFirst(filename) ==
    Truncate(Trim(ReplaceReserved(filename), Cutset))
SanitizeFilename(filename) ==
    Trim(Truncate(ReplaceReserved(filename)), Cutset)

\* File names: a few characters, a run of letters, a few characters; a
\* string is the sequence of its bytes.
NameChars == {" ", ".", "a", ":"}
FillLens == {0, MaxFilenameLen - 3, MaxFilenameLen - 2, MaxFilenameLen - 1}
Filenames ==
    {h \o [i \in 1..n |-> "a"] \o t :
        h \in SeqsUpTo(NameChars, MaxHead), n \in FillLens,
        t \in SeqsUpTo(NameChars, MaxTail)}

\* SanitizeFilename(filenameIn).
Sanitize ==
    /\ spc = "call"
    /\ spc' = "once"
    /\ sanitized' = SanitizeFilename(filenameIn)
    /\ UNCHANGED <<filenameIn, resanitized, ppc, durationIn, parsed>>
    /\ UNCHANGED <<authVars, listVars>>

\* SanitizeFilename applied to its own result.
SanitizeAgain ==
    /\ spc = "once"
    /\ spc' = "twice"
    /\ resanitized' = SanitizeFilename(sanitized)
    /\ UNCHANGED <<filenameIn, sanitized, ppc, durationIn, parsed>>
    /\ UNCHANGED <<authVars, listVars>>

SanitizeInit ==
    /\ AuthStart("off", {File("absent", NoToken)})
    /\ ListIdle
    /\ ParseIdle
    /\ spc = "call"
    /\ filenameIn \in Filenames
    /\ sanitized = <<>>
    /\ resanitized = <<>>

SanitizeNext ==
    \/ Sanitize
    \/ SanitizeAgain

SanitizeSpec == SanitizeInit /\ [][SanitizeNext]_vars

\* =================================================== properties ==========
\* ---- getHTTPClient (AuthSpec) ----
Done == pc = "done"
\* tokenFromFile returned a token.
Loaded == file0.state = "token" /\ pc # "tokenFromFile"
\* tokenSource.Token() was called and failed / answered with a token.
RefreshFailed == refreshCalls = 1 /\ newTok = NoToken
RefreshSucceeded == refreshCalls = 1 /\ newTok # NoToken
\* getTokenFromWeb returned a token.
FlowSucceeded == flowCalls = 1 /\ webPc \in {"ret", "off"} /\ webErr = ""
\* The main flow of getTokenFromWeb is past its receive at line 137.
PastReceive == flowCalls = 1 /\ webPc \notin {"start", "recv"}

\* C1: a token that loads, whose expiry is before the clock reading and
\* whose silent refresh fails, leads to exactly one run of getTokenFromWeb;
\* when that run yields a token, that token is the one (and the only one)
\* passed to saveToken, a returned client is bound to it and the token file
\* then holds it, and the only other way to end is the error of the write.
C1_ReauthorizeOnceAndPersist ==
    (Loaded /\ now # -1 /\ loadedTok.expiry < now /\ RefreshFailed) =>
        /\ flowCalls = 1
        /\ \A i \in 1..Len(saveCalls) : saveCalls[i] = webTok
        /\ (Done /\ FlowSucceeded) =>
              /\ saveCalls = <<webTok>>
              /\ \/ /\ result = "client"
                    /\ clientTok = webTok
                    /\ tokenFile = File("token", webTok)
                 \/ /\ result = "error"
                    /\ err = "save"

C1_Witness ==
    /\ Done
    /\ Loaded /\ loadedTok.expiry < now /\ RefreshFailed
    /\ FlowSucceeded
    /\ webTok # loadedTok
    /\ result = "client"
    /\ clientTok = webTok
    /\ tokenFile = File("token", webTok)

\* C2: after a silent refresh that succeeds, saveToken is called if and
\* only if the refreshed access token differs from the loaded one: with an
\* identical access token there is no write and the file is as it was; with
\* a different one there is exactly one write, of the refreshed token.
C2_WriteIffAccessTokenDiffers ==
    (Loaded /\ RefreshSucceeded) =>
        /\ flowCalls = 0
        /\ IF newTok.access = loadedTok.access
             THEN saveCalls = <<>> /\ tokenFile = file0
             ELSE \/ pc = "saveToken" /\ saveCalls = <<>> /\ tok = newTok
                  \/ /\ saveCalls = <<newTok>>
                     /\ \/ tokenFile = File("token", newTok)
                        \/ result = "error" /\ err = "save"

C2_Witness ==
    /\ Done
    /\ Loaded /\ RefreshSucceeded
    /\ newTok.access = loadedTok.access
    /\ newTok # loadedTok
    /\ result = "client"
    /\ saveCalls = <<>>
    /\ tokenFile = file0

\* C3: the token bound to a returned client has its expiry strictly after
\* the clock reading of the call, or is the token a refresh or an
\* authorization flow of this call produced.
C3_BoundTokenFreshOrJustIssued ==
    result = "client" =>
        \/ now # -1 /\ clientTok.expiry > now
        \/ RefreshSucceeded /\ clientTok = newTok
        \/ FlowSucceeded /\ clientTok = webTok

\* C4: for a token that loads, a refresh is attempted if and only if its
\* expiry is not after the clock reading (expiry <= now); with the expiry
\* strictly after it there is no refresh, no flow and no write.
C4_RefreshIffNotInFuture ==
    (Loaded /\ now # -1) =>
        /\ (pc = "refresh" \/ refreshCalls = 1) <=> (loadedTok.expiry <= now)
        /\ loadedTok.expiry > now =>
              /\ refreshCalls = 0
              /\ flowCalls = 0
              /\ saveCalls = <<>>
              /\ tokenFile = file0

\* C5 as stated: a failed load runs the flow once, attempts no refresh,
\* and on the flow's success the token is persisted and a client returned.
C5_LoadFailurePersistsAndReturns ==
    file0.state # "token" =>
        /\ refreshCalls = 0
        /\ pc # "tokenFromFile" => flowCalls = 1
        /\ (Done /\ FlowSucceeded) =>
              /\ result = "client"
              /\ clientTok = webTok
              /\ tokenFile = File("token", webTok)

\* C5, amended: a failed load (file absent, unreadable or undecodable) is
\* never returned: it runs the flow exactly once and attempts no refresh;
\* on the flow's success the new token is passed to saveToken once, and the
\* call returns a client bound to it with the file holding it, unless that
\* write fails, in which case the write's error is returned.
C5_LoadFailureReauthorizes ==
    file0.state # "token" =>
        /\ refreshCalls = 0
        /\ now = -1
        /\ flowCalls = IF pc = "tokenFromFile" THEN 0 ELSE 1
        /\ result = "error" =>
              err \in {"authorization failed",
                       "unable to retrieve token from web", "save"}
        /\ (Done /\ FlowSucceeded) =>
              /\ saveCalls = <<webTok>>
              /\ \/ /\ result = "client"
                    /\ clientTok = webTok
                    /\ tokenFile = File("token", webTok)
                 \/ /\ result = "error"
                    /\ err = "save"
                    /\ tokenFile \in {file0, File("corrupt", NoToken)}

C5_Witness ==
    /\ Done
    /\ file0.state = "corrupt"
    /\ FlowSucceeded
    /\ result = "client"
    /\ clientTok = webTok
    /\ tokenFile = File("token", webTok)

\* ---- getTokenFromWeb (AuthSpec) ----
\* C6 as stated: the one value handed over is the code of the first
\* request to reach the listener.
C6_FirstArrivalDelivered ==
    received # <<>> =>
        /\ Len(received) = 1
        /\ received[1] = arrivals[1]
        /\ authCode = reqCode[arrivals[1]]

\* C6, amended: in one run exactly one value passes the handoff: the code
\* of the request whose handler is first to complete its send, which is the
\* first request to arrive unless an earlier one is still waiting at its
\* send.  It is received once; the send of every other request never
\* completes and its code is never handed to the token exchange.
C6_OneDelivery ==
    /\ Len(received) <= 1
    /\ PastReceive => Len(received) = 1
    /\ received # <<>> =>
          LET d == received[1] IN
          /\ authCode = reqCode[d]
          /\ Len(exchanges) <= 1
          /\ \A i \in 1..Len(exchanges) : exchanges[i] = reqCode[d]
          /\ \A r \in Requests \ {d} : handler[r] # "done"
          /\ \A i, j \in 1..Len(arrivals) :
                (i < j /\ arrivals[j] = d) => handler[arrivals[i]] = "send"

C6_Witness ==
    /\ Done
    /\ Len(arrivals) = 2
    /\ received = <<arrivals[1]>>
    /\ reqCode[arrivals[1]] = "ABC"
    /\ reqCode[arrivals[2]] = "XYZ"
    /\ handler[arrivals[2]] = "send"
    /\ exchanges = <<"ABC">>

\* C7: when the request that is handed over carries no code, the flow
\* returns the authorization error and no token, config.Exchange is never
\* called, and no other request, with or without a code, changes that.
C7_NoCodeFails ==
    (received # <<>> /\ reqCode[received[1]] = "") =>
        /\ exchanges = <<>>
        /\ webTok = NoToken
        /\ saveCalls = <<>>
        /\ webPc \in {"ret", "off"} => webErr = "authorization failed"
        /\ Done => (result = "error" /\ err = "authorization failed")

C7_Witness ==
    /\ Done
    /\ Len(arrivals) = 2
    /\ received = <<arrivals[1]>>
    /\ reqCode[arrivals[1]] = ""
    /\ reqCode[arrivals[2]] = "ABC"
    /\ handler[arrivals[2]] = "send"
    /\ result = "error"
    /\ err = "authorization failed"
\* ---- ListVideos (ListSpec) ----
\* The identifiers the listing named, in listing order.
Listed == Flatten(listing)
\* The pages that named at least one identifier: details[k] answers the
\* k-th of them.
Asked == SelectSeq(listing, LAMBDA page : page # <<>>)
Ids(items) == [i \in 1..Len(items) |-> items[i].id]
ReturnedIds == [i \in 1..Len(returned) |-> returned[i].videoID]
Distinct(q) == \A i, j \in 1..Len(q) : i # j => q[i] # q[j]
\* Every detail answer holds one record per requested identifier.
AnswersComplete ==
    \A k \in 1..Len(details) :
        Len(details[k]) = Len(Asked[k]) /\ Range(Ids(details[k])) = Range(Asked[k])
\* No reported duration is below the threshold.
NoneShort ==
    \A k \in 1..Len(details) : \A i \in 1..Len(details[k]) :
        ParseDuration(details[k][i].duration) >= minDurationSeconds
\* Identifier a comes before identifier b in the listing.
ListedBefore(a, b) ==
    \E i, j \in 1..Len(Listed) : i < j /\ Listed[i] = a /\ Listed[j] = b
\* The identifiers of the records of one answer at or above the threshold,
\* in the order of the answer.
PassingIds(items) ==
    Ids(SelectSeq(items, LAMBDA v :
        ParseDuration(v.duration) >= minDurationSeconds))
\* Answer k gives its records in the order they were asked for.
InRequestOrder(k) ==
    \A i, j \in 1..Len(details[k]) : i < j =>
        \E a, b \in 1..Len(Asked[k]) :
            a < b /\ Asked[k][a] = details[k][i].id
                  /\ Asked[k][b] = details[k][j].id

\* C8: over a listing of any number of pages ending with an empty cursor,
\* with all listed identifiers distinct, every detail answer complete and
\* no record below the threshold, the result holds exactly one summary per
\* listed item and no identifier twice.
C8_OneSummaryPerListedItem ==
    (lresult = "ok" /\ Distinct(Listed) /\ AnswersComplete /\ NoneShort) =>
        /\ Len(returned) = Len(Listed)
        /\ Distinct(ReturnedIds)
        /\ Range(ReturnedIds) = Range(Listed)

C8_Witness ==
    /\ lresult = "ok"
    /\ Len(listing) = 2
    /\ Len(listing[1]) = 2
    /\ Len(listing[2]) = 1
    /\ Distinct(Listed) /\ AnswersComplete /\ NoneShort
    /\ Len(returned) = 3

\* C9 as stated: any two returned summaries are in the order in which the
\* listing named their identifiers, whatever the order of the detail
\* answers.
C9_ListingOrder ==
    lresult = "ok" =>
        \A i, j \in 1..Len(returned) :
            i < j => ListedBefore(ReturnedIds[i], ReturnedIds[j])

\* C9, amended: the result is the concatenation, in page order, of the
\* records each detail answer returned at or above the threshold, in the
\* order of that answer; it is never re-sorted, so it follows the listing
\* order across pages, and within a page whenever the detail answer gives
\* its records in the order they were asked for.
C9_PageThenAnswerOrder ==
    lresult = "ok" =>
        /\ ReturnedIds = Flatten([k \in 1..Len(details) |-> PassingIds(details[k])])
        /\ (Distinct(Listed) /\ \A k \in 1..Len(details) : InRequestOrder(k)) =>
              \A i, j \in 1..Len(returned) :
                  i < j => ListedBefore(ReturnedIds[i], ReturnedIds[j])

C9_Witness ==
    /\ lresult = "ok"
    /\ listing = <<(<<"v1", "v2">>), (<<"v3">>)>>
    /\ NoneShort
    /\ ReturnedIds = <<"v2", "v1", "v3">>

\* C10: when a page request or a detail request fails, at any iteration
\* and whatever has been accumulated, ListVideos returns the error and no
\* summaries, the failed request is the last one issued and no step of
\* ListVideos remains.
C10_FailureDiscardsAll ==
    (lresult = "error" /\ lerr \in {"error retrieving playlist items",
                                    "error retrieving video statistics"}) =>
        LET failed == IF lerr = "error retrieving playlist items"
                        THEN "page" ELSE "details"
            Issued(kind) == Len(SelectSeq(calls, LAMBDA c : c.kind = kind))
        IN /\ returned = <<>>
           /\ calls[Len(calls)].kind = failed
           /\ Issued("page") = Len(listing) + (IF failed = "page" THEN 1 ELSE 0)
           /\ Issued("details") = Len(details) + (IF failed = "details" THEN 1 ELSE 0)
           /\ lpc = "done"
           /\ ~ENABLED ListNext

C10_Witness ==
    /\ lresult = "error"
    /\ lerr = "error retrieving video statistics"
    /\ Len(listing) = 2
    /\ Len(videos) = 2
    /\ returned = <<>>

\* How many entries of q satisfy Test.
Count(q, Test(_)) == Len(SelectSeq(q, Test))
\* All detail records answered so far, in the order they were answered.
Records == Flatten(details)

\* C11: isShort is the strict comparison: a duration equal to the threshold
\* is not short, one second below it is short, and when ListVideos returns
\* its result holds a video exactly as often as a detail record of that
\* video with a parsed duration at or above the threshold was answered, so
\* records at the threshold are kept and records below it are dropped.
C11_StrictThreshold ==
    /\ ~isShort(PT1M, 60)
    /\ isShort(PT59S, 60)
    /\ lresult = "ok" =>
          \A id \in VideoIDs :
              Count(ReturnedIds, LAMBDA v : v = id) =
                  Count(Records, LAMBDA r :
                      r.id = id /\ ParseDuration(r.duration) >= minDurationSeconds)

C11_Witness ==
    /\ lresult = "ok"
    /\ \E i, j \in 1..Len(Records) :
          /\ ParseDuration(Records[i].duration) = minDurationSeconds
          /\ ParseDuration(Records[j].duration) = minDurationSeconds - 1
          /\ Records[i].id \in Range(ReturnedIds)
          /\ Records[j].id \notin Range(ReturnedIds)

\* ---- ParseDuration (ParseSpec) ----
Parsed == ppc = "done"
\* Amounts a group may carry, with the number their digits denote; the
\* empty amount is an absent group.
Amounts ==
    {[digits |-> <<>>, value |-> 0], [digits |-> <<"2">>, value |-> 2],
     [digits |-> <<"3", "0">>, value |-> 30]}
\* The group of amount a with unit letter u.
GroupOf(a, u) == IF a.digits = <<>> THEN <<>> ELSE a.digits \o <<u>>
\* PT, then the hours, minutes and seconds groups, each at most once.
Canonical(h, m, s) ==
    <<"P", "T">> \o GroupOf(h, "H") \o GroupOf(m, "M") \o GroupOf(s, "S")

\* C12: for PT followed by an optional hours group, then an optional
\* minutes group, then an optional seconds group, ParseDuration returns
\* h*3600 + m*60 + s with absent groups counting as 0; the inputs of
\* TestParseDuration give the values the test wants.
C12_CanonicalDurations ==
    Parsed =>
        /\ \A h, m, s \in Amounts :
              durationIn = Canonical(h, m, s) =>
                  parsed = h.value * 3600 + m.value * 60 + s.value
        /\ \A t \in TestParseDuration : durationIn = t[1] => parsed = t[2]

C12_Witness ==
    /\ Parsed
    /\ durationIn = <<"P", "T", "2", "H", "3", "0", "M", "2", "S">>
    /\ parsed = 9002

\* The input lacks the two-character marker.
NoMarker == ~HasPrefix(durationIn, <<"P", "T">>)
\* The input is the marker and nothing else.
EmptyRemainder == durationIn = <<"P", "T">>
\* A digit run of the input ends the input or is followed by a character
\* other than H, M and S.
DanglingDigitRun ==
    \E i \in 1..Len(durationIn) :
        /\ IsDigit(durationIn[i])
        /\ \/ i = Len(durationIn)
           \/ /\ ~IsDigit(durationIn[i + 1])
              /\ durationIn[i + 1] \notin {"H", "M", "S"}

\* C13: ParseDuration returns zero for every input that lacks the marker,
\* that holds a digit run not followed by H, M or S (also after valid
\* groups), or whose remainder after the marker is empty.
C13_MalformedIsZero ==
    (Parsed /\ (NoMarker \/ DanglingDigitRun \/ EmptyRemainder)) => parsed = 0

\* ---- SanitizeFilename (SanitizeSpec) ----
\* C14: sanitizing a sanitized name changes nothing, and a sanitized name
\* is at most 100 bytes long, neither begins nor ends with a space or a
\* period, and holds none of the reserved characters.
C14_SanitizeIdempotentAndClean ==
    /\ spc \in {"once", "twice"} =>
          /\ Len(sanitized) <= 100
          /\ sanitized # <<>> =>
                /\ sanitized[1] \notin {" ", "."}
                /\ sanitized[Len(sanitized)] \notin {" ", "."}
          /\ \A i \in 1..Len(sanitized) :
                sanitized[i] \notin {"<", ">", ":", "\"", "/", "\\", "|", "?", "*"}
    /\ spc = "twice" => resanitized = sanitized

\* A name longer than the limit whose cut leaves a space at the end, with
\* a reserved character in it.
C14_Witness ==
    /\ spc = "twice"
    /\ Len(filenameIn) > MaxFilenameLen
    /\ filenameIn[MaxFilenameLen] = " "
    /\ filenameIn[1] = ":"
    /\ Len(sanitized) = MaxFilenameLen - 1
    /\ sanitized[1] = "_"
    /\ resanitized = sanitized

\* ---- getTokenFromWeb (AuthSpec) ----
\* C15 as stated: the listener is shut down only after the exchange of the
\* received code has completed, or when no code was received.
C15_ExchangeBeforeShutdown ==
    shutdowns > 0 => (~HasCode(authCode) \/ exchanges # <<>>)

\* C15: the listener is shut down right after the receive and before the
\* code is looked at: a shutdown follows a handoff, an exchange is made
\* only after the shutdown, with the code received, and a flow that
\* received no code returns without an exchange.
C15_ShutdownBeforeExchange ==
    /\ shutdowns > 0 => Len(received) = 1
    /\ exchanges # <<>> =>
          /\ shutdowns = 1
          /\ server # "listening"
          /\ HasCode(authCode)
          /\ exchanges = <<authCode>>
    /\ (PastReceive /\ webPc \in {"ret", "off"} /\ ~HasCode(authCode)) =>
          exchanges = <<>>

C15_Witness ==
    /\ webPc = "ret"
    /\ shutdowns = 1
    /\ server = "closed"
    /\ exchanges = <<"ABC">>
    /\ webErr = ""

\* C16: once the listener has been shut down, no handler is left waiting
\* to hand over its code.
C16_NoHandlerLeftBlocked ==
    shutdowns > 0 => \A r \in Requests : handler[r] # "send"

\* Steps of the main flow of getTokenFromWeb: not running, started, at the
\* receive, shutting down, looking at the code, returning.
FlowOrder ==
    {<<"off", "start">>, <<"start", "recv">>, <<"recv", "shutdown">>,
     <<"shutdown", "check">>, <<"check", "ret">>, <<"ret", "off">>}

\* C17: getTokenFromWeb moves from its start to its receive, then to the
\* shutdown of the listener, then to the code it received, then returns; a
\* run that returns has received from exactly one handler and has shut the
\* listener down exactly once, whether the exchange succeeded, failed or
\* was skipped for want of a code.
C17_FlowOrderAndShutdown ==
    /\ [][webPc' # webPc => <<webPc, webPc'>> \in FlowOrder]_vars
    /\ [](webPc = "ret" =>
            /\ Len(received) = 1
            /\ Len(arrivals) >= 1
            /\ shutdowns = 1
            /\ server # "listening"
            /\ \/ webErr = "" /\ webTok # NoToken /\ exchanges = <<authCode>>
               \/ webErr = "authorization failed" /\ exchanges = <<>>
               \/ webErr = "unable to retrieve token from web"
                     /\ exchanges = <<authCode>>)

C17_Witness ==
    /\ webPc = "ret"
    /\ webErr = "unable to retrieve token from web"
    /\ shutdowns = 1
    /\ Len(received) = 1

\* ---- ListVideos requests (ListSpec) ----
PageCalls == SelectSeq(calls, LAMBDA c : c.kind = "page")
DetailCalls == SelectSeq(calls, LAMBDA c : c.kind = "details")
MineCalls == SelectSeq(calls, LAMBDA c : c.kind = "mine")
ChannelCalls == SelectSeq(calls, LAMBDA c : c.kind = "channel")

\* C18: the first page request carries the empty cursor and every later
\* one the cursor the page before it answered with; no page is requested
\* after a page that answered with the empty cursor; once such a page has
\* been dealt with ListVideos has returned, and until it returns it always
\* has a step to take.
C18_PagesInSequence ==
    /\ Len(PageCalls) \in {Len(cursors), Len(cursors) + 1}
    /\ Len(PageCalls) = Len(cursors) + 1 =>
          lerr = "error retrieving playlist items"
    /\ \A i \in 1..Len(PageCalls) :
          /\ PageCalls[i].cursor = IF i = 1 THEN 0 ELSE cursors[i - 1]
          /\ i > 1 => cursors[i - 1] # 0
    /\ (cursors # <<>> /\ cursors[Len(cursors)] = 0 /\ lpc # "details") =>
          /\ lpc = "done"
          /\ lresult # "ok" => lerr = "error retrieving video statistics"
    /\ lresult = "ok" => cursors # <<>> /\ cursors[Len(cursors)] = 0
    /\ lpc # "done" => ENABLED ListNext

C18_Witness ==
    /\ lresult = "ok"
    /\ cursors = <<2, 0>>
    /\ Len(PageCalls) = 2
    /\ PageCalls[1].cursor = 0
    /\ PageCalls[2].cursor = 2

\* C19: every page that names at least one identifier is followed at once
\* by one detail request carrying all identifiers of that page, a page that
\* names none is followed by no detail request, and the detail requests
\* never outnumber the page requests.
C19_OneBatchPerPage ==
    /\ Len(DetailCalls) <= Len(PageCalls)
    /\ Len(DetailCalls) = Len(Asked) - (IF lpc = "details" THEN 1 ELSE 0)
    /\ \A k \in 1..Len(DetailCalls) : DetailCalls[k].ids = Asked[k]
    /\ \A i \in 1..Len(calls) :
          calls[i].kind = "details" =>
              /\ i > 1
              /\ calls[i - 1].kind = "page"
              /\ calls[i].ids = listing[Len(SelectSeq(SubSeq(calls, 1, i),
                                    LAMBDA c : c.kind = "page"))]
              /\ calls[i].ids # <<>>

C19_Witness ==
    /\ lresult = "ok"
    /\ Len(listing) = 2
    /\ listing[1] = <<>>
    /\ Len(listing[2]) = 3
    /\ Len(PageCalls) = 2
    /\ Len(DetailCalls) = 1
    /\ DetailCalls[1].ids = listing[2]

\* C20: the lookup of the caller's own channel is made once when no
\* channelID was passed and never when one was; when that lookup or the
\* lookup of the uploads playlist finds no channel, ListVideos returns a
\* not-found error and has issued no page and no detail request.
C20_ChannelLookups ==
    /\ lpc = "channel" => calls = <<>>
    /\ lpc # "channel" =>
          /\ Len(MineCalls) = IF channelArg = "" THEN 1 ELSE 0
          /\ \A i \in 1..Len(calls) :
                (calls[i].kind = "mine") <=> (i = 1 /\ channelArg = "")
    /\ channelArg # "" => channelID = channelArg
    /\ Len(ChannelCalls) <= 1
    /\ lerr \in {"no channel found for authenticated user",
                 "channel not found"} =>
          /\ lresult = "error"
          /\ lpc = "done"
          /\ PageCalls = <<>>
          /\ DetailCalls = <<>>
          /\ returned = <<>>
          /\ calls[Len(calls)].kind =
                IF lerr = "channel not found" THEN "channel" ELSE "mine"

C20_Witness ==
    /\ channelArg = ""
    /\ lresult = "error"
    /\ lerr = "channel not found"
    /\ Len(MineCalls) = 1
    /\ Len(calls) = 2

\* d is a sequence of groups, each a non-empty digit run and one of H, M, S.
RECURSIVE WellFormedGroups(_)
WellFormedGroups(d) ==
    \/ d = <<>>
    \/ LET i == DigitRun(d)
       IN /\ i > 0
          /\ i < Len(d)
          /\ d[i + 1] \in {"H", "M", "S"}
          /\ WellFormedGroups(SubSeq(d, i + 2, Len(d)))

\* The sum, over the groups of a well-formed d, of the number its digits
\* denote times 3600, 60 or 1, in int arithmetic.
RECURSIVE SumOfGroups(_)
SumOfGroups(d) ==
    IF d = <<>> THEN 0
    ELSE LET i == DigitRun(d)
             val == Magnitude(d, i)
             part == CASE d[i + 1] = "H" -> Times3600(val)
                       [] d[i + 1] = "M" -> Times60(val)
                       [] d[i + 1] = "S" -> val
         IN WrapInt(part + SumOfGroups(SubSeq(d, i + 2, Len(d))))

\* C21: for PT followed by groups of digits and a unit among H, M, S, in
\* any order and with units possibly repeated, ParseDuration returns the
\* sum over all groups of digits times 3600, 60 or 1.
C21_EveryGroupContributes ==
    (/\ Parsed
     /\ HasPrefix(durationIn, <<"P", "T">>)
     /\ WellFormedGroups(SubSeq(durationIn, 3, Len(durationIn)))) =>
        parsed = SumOfGroups(SubSeq(durationIn, 3, Len(durationIn)))

\* C22: ParseDuration returns a non-negative integer for every input, also
\* when the magnitude of a digit run or its product by 3600 or 60 exceeds
\* the width of int.
C22_NeverNegative ==
    Parsed => parsed >= 0

\* ---- getHTTPClient and Authenticate (CredentialSpec) ----
\* C23: when getTokenFromWeb fails, for want of a code or because the
\* exchange failed, the call of getHTTPClient or Authenticate that made it
\* returns that error and no client, saveToken is never called and the
\* token file stays as it was when the call started.
C23_FlowFailureLeavesFile ==
    /\ (flowCalls = 1 /\ webErr # "") =>
          /\ saveCalls = <<>>
          /\ tokenFile = file0
          /\ clientTok = NoToken
          /\ result \in {"none", "error"}
          /\ pc \in {"web", "authWeb", "done"}
    /\ (flowCalls = 1 /\ webErr # "" /\ pc = "done") =>
          /\ result = "error"
          /\ err = webErr
          /\ err \in {"authorization failed",
                      "unable to retrieve token from web"}
          /\ ~ENABLED CredentialNext

\* The refresh of a stored token failed, then the exchange of the code.
C23_Witness ==
    /\ pc = "done"
    /\ site = "refresh"
    /\ file0.state = "token"
    /\ refreshCalls = 1
    /\ webErr = "unable to retrieve token from web"
    /\ result = "error"
    /\ tokenFile = file0

=============================================================================
